---- MODULE Spec2Model ----
(***************************************************************************)
(* terminal-gpt: the Vi-style chat editor of src/app.py,                   *)
(* src/custom_widgets/vimkey.py and src/custom_widgets/chat.py.            *)
(*                                                                         *)
(* Text is a sequence of one-character strings.  A handler is an operator  *)
(* from a record of the program's fields to the record after the call; an  *)
(* uncaught Python exception is recorded in the field exc and ends the     *)
(* main loop.                                                              *)
(***************************************************************************)
EXTENDS Integers, Sequences, FiniteSets, TLC

VARIABLES
    message_list,         \* ChatHistory.message_list: the EditableChatBubbles, in order
    focus,                \* the list walker's focus index (meaningful when the list is non-empty)
    insert_mode,          \* VimKeyHandler.insert_mode
    footer_mode,          \* VimHeader.mode as shown by the footer
    footer_key_sequence,  \* VimHeader.key_sequence as shown by the footer
    key_buffer,           \* VimKeyHandler.key_buffer
    keybinds,             \* VimKeyHandler.keybinds, in the dict's iteration order
    busy,                 \* ChatApp._busy
    exc,                  \* "none", or the exception that left the main loop
    stream,               \* "streaming" while get_response iterates the response, "done" from
                          \* its end to the next event, "idle" otherwise
    delivered,            \* the fragments the source has yielded to that stream, in arrival order
    len_at_submit,        \* len(message_list) when the submit of that stream was accepted
    streams,              \* the number of submits accepted so far
    pending,              \* the keys typed while get_response blocks the main loop: they wait
                          \* in the terminal until the loop reads its input again
    written,              \* what write_changes has written to the chat file, of kind
                          \* "unwritten" while it has written nothing
    complete,             \* ChatApp.complete: "unset" while the attribute does not exist,
                          \* "None", or "fn" once a completion function is stored
    loaders               \* the load_model threads that have yet to store the function

vars == <<message_list, focus, insert_mode, footer_mode, footer_key_sequence,
          key_buffer, keybinds, busy, exc, stream, delivered, len_at_submit, streams,
          pending, written, complete, loaders>>

-----------------------------------------------------------------------------
(* Bounds of the model *)

MaxLen == 2        \* most entries the document grows to
MaxText == 1       \* most characters typed into one edit box
MaxFrags == 2      \* most fragments one completion stream delivers
MaxStreams == 1    \* most submits accepted in one run
MaxPending == 1    \* most keys typed while one stream blocks the main loop
MaxLoaders == 1    \* most load_model threads running at a time

None == "None"

Min(a, b) == IF a < b THEN a ELSE b
Max(a, b) == IF a > b THEN a ELSE b

Roles == {"user", "assistant"}

\* keys the terminal delivers
BoundKeys == {"G", "i", "a", "I", "A", "j", "k", "l", "h", "ctrl up", "ctrl down",
              "o", "O", "c", "d", "g"}
Keys == BoundKeys \cup {"esc", "enter", "ctrl e", "q", "x"}

\* the printable keys typed while an edit box has the focus
TypedChars == {"a"}

\* the text fragments a completion source yields (never empty: openai.py line 33)
Fragments == {<<"a">>, <<"b">>}

\* what the external editor hands back
EditorTexts == {<<"b">>}

\* the keys typed while a stream is running
PendingKeys == {"enter", "q"}

\* a key, and the text the editor returns should the key open it
Inputs == {<<key, <<>>>> : key \in Keys} \cup {<<"ctrl e", text>> : text \in EditorTexts}

-----------------------------------------------------------------------------
(* EditableChatBubble *)

EditableChatBubble(content, role) ==
    [content |-> content, role |-> role, editing |-> FALSE,
     edit_text |-> <<>>, edit_pos |-> 0, last_edit_position |-> 0]

\* EditableChatBubble.enter_insert_mode(edit_pos); Edit.set_edit_pos clamps to the text
BubbleEnterInsertMode(m, edit_pos) ==
    IF m.editing THEN m
    ELSE [m EXCEPT !.editing = TRUE,
                   !.edit_text = m.content,
                   !.edit_pos = CASE edit_pos = "start" -> 0
                                  [] edit_pos = "end" -> Len(m.content)
                                  [] OTHER -> Min(m.last_edit_position, Len(m.content))]

\* a leave that throws the edit box away without copying it
BubbleLeaveDiscard(m) ==
    IF m.editing
    THEN [m EXCEPT !.editing = FALSE, !.edit_text = <<>>, !.edit_pos = 0]
    ELSE m

\* a leave that keeps the edit box
BubbleLeaveKeepEditing(m) == m

\* EditableChatBubble.leave_insert_mode
BubbleLeaveInsertMode(m) ==
    IF m.editing
    THEN [m EXCEPT !.content = m.edit_text,
                   !.last_edit_position = m.edit_pos,
                   !.editing = FALSE, !.edit_text = <<>>, !.edit_pos = 0]
    ELSE m

\* EditableChatBubble.update: the widget is rebuilt from self.content
BubbleUpdate(m) ==
    IF m.editing THEN [m EXCEPT !.edit_text = m.content, !.edit_pos = 0] ELSE m

GetContent(m) == IF m.editing THEN m.edit_text ELSE m.content

\* urwid.Edit inserting one printable character at the cursor
EditInsert(m, ch) ==
    [m EXCEPT !.edit_text = SubSeq(m.edit_text, 1, m.edit_pos) \o <<ch>>
                            \o SubSeq(m.edit_text, m.edit_pos + 1, Len(m.edit_text)),
              !.edit_pos = m.edit_pos + 1]

-----------------------------------------------------------------------------
(* ChatHistory: a ListBox over a SimpleListWalker *)

\* the fields of the program a handler reads and writes, and what a keypress reports:
\* fed, the pending buffer its binding scan saw; outcome, what the dispatcher did
\* (Consumed, Executed, Unmatched, or Forwarded in Insert mode); executed, the binding
\* it called; typed, whether an edit box took the key
State ==
    [message_list |-> message_list, focus |-> focus, insert_mode |-> insert_mode,
     footer_mode |-> footer_mode, footer_key_sequence |-> footer_key_sequence,
     key_buffer |-> key_buffer, busy |-> busy, exc |-> exc, stream |-> stream,
     delivered |-> delivered, len_at_submit |-> len_at_submit, streams |-> streams,
     pending |-> pending, written |-> written, complete |-> complete, loaders |-> loaders,
     fed |-> <<>>, outcome |-> None, executed |-> "none", typed |-> FALSE]

Raise(s, e) == [s EXCEPT !.exc = e]

IsEmpty(s) == Len(s.message_list) = 0

\* ListBox.focus: the focused widget's index, None on an empty list
FocusOf(s) == IF IsEmpty(s) THEN None ELSE s.focus

\* SimpleListWalker._modified, run after every change of the list
WalkerModified(s) ==
    IF s.focus >= Len(s.message_list)
    THEN [s EXCEPT !.focus = Max(0, Len(s.message_list) - 1)]
    ELSE s

\* ChatHistory.set_focus: ListBox.set_focus raises IndexError on an empty list or a
\* position outside the list, and the wrapper swallows it
SetFocus(s, position) ==
    IF position >= 0 /\ position < Len(s.message_list)
    THEN [s EXCEPT !.focus = position]
    ELSE s

RemoveAt(seq, i) == SubSeq(seq, 1, i - 1) \o SubSeq(seq, i + 1, Len(seq))
InsertAt(seq, i, e) == SubSeq(seq, 1, i - 1) \o <<e>> \o SubSeq(seq, i, Len(seq))

\* delete_message keeping the old index as the focus, whatever the new length
DeleteMessageKeepIndex(s, index) ==
    IF 0 <= index /\ index < Len(s.message_list)
    THEN [s EXCEPT !.message_list = RemoveAt(s.message_list, index + 1), !.focus = index]
    ELSE s

\* delete_message focusing the entry before the deleted one
DeleteMessageFocusPrevious(s, index) ==
    IF 0 <= index /\ index < Len(s.message_list)
    THEN LET d == WalkerModified([s EXCEPT !.message_list = RemoveAt(s.message_list, index + 1)])
         IN SetFocus(d, Max(index - 1, 0))
    ELSE s

\* ChatHistory.delete_message(index); index is 0-based as in the source
DeleteMessage(s, index) ==
    IF 0 <= index /\ index < Len(s.message_list)
    THEN LET d == WalkerModified([s EXCEPT !.message_list = RemoveAt(s.message_list, index + 1)])
             new_index == Min(index, Len(d.message_list))
         IN SetFocus(d, new_index)
    ELSE s

\* ChatHistory.rebuild
Rebuild(s) ==
    [s EXCEPT !.message_list = [i \in 1..Len(s.message_list) |-> BubbleUpdate(s.message_list[i])]]

-----------------------------------------------------------------------------
(* VimKeyHandler: the bound actions *)

Focused(s) == s.message_list[s.focus + 1]

WithFocused(s, m) == [s EXCEPT !.message_list[s.focus + 1] = m]

\* list.append / list.insert on the walker, followed by its _modified
ListAppend(s, m) == WalkerModified([s EXCEPT !.message_list = Append(s.message_list, m)])
ListInsert(s, index, m) ==
    WalkerModified([s EXCEPT !.message_list = InsertAt(s.message_list, Min(index, Len(s.message_list)) + 1, m)])

\* a focus_next that grows the document below an empty last entry too
FocusNextAlwaysGrow(s) ==
    IF IsEmpty(s) THEN Raise(s, "IndexError")
    ELSE LET idx == s.focus + 1
         IN IF idx > Len(s.message_list) - 1
            THEN LET a == ListAppend(s, EditableChatBubble(<<>>, "user"))
                 IN SetFocus(a, Len(a.message_list) - 1)
            ELSE SetFocus(s, idx)

FocusNextMessage(s) ==
    IF IsEmpty(s) THEN Raise(s, "IndexError")          \* focus_position of an empty ListBox
    ELSE LET idx == s.focus + 1
             last_message == s.message_list[Len(s.message_list)]
         IN IF idx > Len(s.message_list) - 1
            THEN LET a == IF GetContent(last_message) # <<>>
                          THEN ListAppend(s, EditableChatBubble(<<>>, "user"))
                          ELSE s
                 IN SetFocus(a, Len(a.message_list) - 1)
            ELSE SetFocus(s, idx)

FocusPreviousMessage(s) ==
    IF IsEmpty(s) THEN Raise(s, "IndexError")
    ELSE SetFocus(s, Max(s.focus - 1, 0))

SetInsertMode(s, mode) ==
    [s EXCEPT !.insert_mode = mode,
              !.footer_mode = IF mode THEN "insert" ELSE "normal"]

EnterInsertMode(s, edit_position) ==
    LET a == IF IsEmpty(s)
             THEN LET b == ListAppend(s, EditableChatBubble(<<>>, "user"))
                  IN SetFocus(b, Len(b.message_list) - 1)
             ELSE s
        c == SetInsertMode(a, TRUE)
    IN WithFocused(c, BubbleEnterInsertMode(Focused(c), edit_position))

DeleteFocusedMessage(s) ==
    IF IsEmpty(s) THEN s                                \* IndexError, caught
    ELSE DeleteMessage(s, s.focus)

\* a clear that opens the edit box and keeps the content
ClearFocusedKeepContent(s) ==
    IF IsEmpty(s) THEN s
    ELSE LET a == SetInsertMode(s, TRUE)
         IN WithFocused(a, BubbleEnterInsertMode(Focused(a), None))

ClearFocusedMessage(s) ==
    IF IsEmpty(s) THEN s
    ELSE LET a == SetInsertMode(s, TRUE)
         IN WithFocused(a, BubbleEnterInsertMode([Focused(a) EXCEPT !.content = <<>>], None))

GoToFirstMessage(s) == SetFocus(s, 0)

GoToLastMessage(s) == SetFocus(s, Len(s.message_list) - 1)

\* a role switch that toggles, whatever role is asked for
SwitchMessageRoleToggle(s, role) ==
    IF IsEmpty(s) THEN s
    ELSE WithFocused(s, BubbleUpdate([Focused(s) EXCEPT
             !.role = IF Focused(s).role = "user" THEN "assistant" ELSE "user"]))

SwitchMessageRole(s, role) ==
    IF IsEmpty(s) THEN s
    ELSE WithFocused(s, BubbleUpdate([Focused(s) EXCEPT !.role = role]))

\* Python indexing: a negative index counts from the end, an index outside raises IndexError
InRange(seq, i) == i >= -Len(seq) /\ i < Len(seq)
At(seq, i) == IF i >= 0 THEN seq[i + 1] ELSE seq[Len(seq) + i + 1]
Put(seq, i, e) == IF i >= 0 THEN [seq EXCEPT ![i + 1] = e] ELSE [seq EXCEPT ![Len(seq) + i + 1] = e]

\* swap_message without the test new_idx >= 0
SwapMessageNoGuard(s, delta) ==
    IF IsEmpty(s) THEN s
    ELSE LET idx == s.focus
             new_idx == idx + delta
         IN IF ~InRange(s.message_list, new_idx) THEN s
            ELSE LET message == At(s.message_list, idx)
                     prev_message == At(s.message_list, new_idx)
                     a == [s EXCEPT !.message_list =
                               Put(Put(s.message_list, idx, prev_message), new_idx, message)]
                 IN SetFocus(WalkerModified(a), new_idx)

\* swap_message without the set_focus that follows the moved entry
SwapMessageKeepFocus(s, delta) ==
    IF IsEmpty(s) THEN s
    ELSE LET idx == s.focus
             new_idx == idx + delta
         IN IF new_idx >= 0
            THEN IF ~InRange(s.message_list, new_idx) THEN s
                 ELSE LET message == At(s.message_list, idx)
                          prev_message == At(s.message_list, new_idx)
                      IN WalkerModified([s EXCEPT !.message_list =
                             Put(Put(s.message_list, idx, prev_message), new_idx, message)])
            ELSE s

SwapMessage(s, delta) ==
    IF IsEmpty(s) THEN s                                \* IndexError, caught
    ELSE LET idx == s.focus
             new_idx == idx + delta
         IN IF new_idx >= 0
            THEN IF ~InRange(s.message_list, new_idx) THEN s   \* IndexError, caught
                 ELSE LET message == At(s.message_list, idx)
                          prev_message == At(s.message_list, new_idx)
                          a == [s EXCEPT !.message_list =
                                    Put(Put(s.message_list, idx, prev_message), new_idx, message)]
                      IN SetFocus(WalkerModified(a), new_idx)
            ELSE s

\* an add_message that leaves the focus where it was
AddMessageNoFocus(s, index) ==
    LET a == ListInsert(s, index, EditableChatBubble(<<>>, "user"))
        c == [a EXCEPT !.insert_mode = TRUE]
    IN [c EXCEPT !.message_list[index + 1] = BubbleEnterInsertMode(c.message_list[index + 1], None)]

AddMessage(s, index) ==
    LET a == ListInsert(s, index, EditableChatBubble(<<>>, "user"))
        b == SetFocus(a, index)
        c == [b EXCEPT !.insert_mode = TRUE]
    IN [c EXCEPT !.message_list[index + 1] = BubbleEnterInsertMode(c.message_list[index + 1], None)]

AddMessageAbove(s) ==
    IF Len(s.message_list) = 0 THEN AddMessage(s, 0) ELSE AddMessage(s, s.focus)

AddMessageBelow(s) ==
    IF Len(s.message_list) = 0 THEN AddMessage(s, 0) ELSE AddMessage(s, s.focus + 1)

-----------------------------------------------------------------------------
(* VimKeyHandler: the binding table and keypress *)

Bind(keys, action) == [keys |-> keys, action |-> action]

\* VimKeyHandler.keybinds as written in __init__, in insertion order
Keybinds ==
    << Bind(<<"G">>, "go_to_last_message"),
       Bind(<<"i">>, "enter_insert_mode"),
       Bind(<<"a">>, "enter_insert_mode"),
       Bind(<<"I">>, "enter_insert_mode_start"),
       Bind(<<"A">>, "enter_insert_mode_end"),
       Bind(<<"j">>, "focus_next_message"),
       Bind(<<"k">>, "focus_previous_message"),
       Bind(<<"l">>, "switch_message_to_user"),
       Bind(<<"h">>, "switch_message_to_assistant"),
       Bind(<<"ctrl up">>, "swap_message_up"),
       Bind(<<"ctrl down">>, "swap_message_down"),
       Bind(<<"o">>, "add_message_above"),
       Bind(<<"O">>, "add_message_below"),
       Bind(<<"c">>, "clear_focused_message"),
       Bind(<<"d", "d">>, "delete_focused_message"),
       Bind(<<"g", "g">>, "go_to_first_message") >>

\* the callable a binding names
Call(s, action) ==
    CASE action = "go_to_last_message" -> GoToLastMessage(s)
      [] action = "enter_insert_mode" -> EnterInsertMode(s, None)
      [] action = "enter_insert_mode_start" -> EnterInsertMode(s, "start")
      [] action = "enter_insert_mode_end" -> EnterInsertMode(s, "end")
      [] action = "focus_next_message" -> FocusNextMessage(s)
      [] action = "focus_previous_message" -> FocusPreviousMessage(s)
      [] action = "switch_message_to_user" -> SwitchMessageRole(s, "user")
      [] action = "switch_message_to_assistant" -> SwitchMessageRole(s, "assistant")
      [] action = "swap_message_up" -> SwapMessage(s, -1)
      [] action = "swap_message_down" -> SwapMessage(s, 1)
      [] action = "add_message_above" -> AddMessageAbove(s)
      [] action = "add_message_below" -> AddMessageBelow(s)
      [] action = "clear_focused_message" -> ClearFocusedMessage(s)
      [] action = "delete_focused_message" -> DeleteFocusedMessage(s)
      [] action = "go_to_first_message" -> GoToFirstMessage(s)

\* a prefix test that compares the first chord only
IsPrefixOfFirstChord(buf, keybind) == Head(buf) = Head(keybind)

\* keybind[:len(key_buffer)] == tuple(key_buffer)
IsPrefixOf(buf, keybind) == SubSeq(keybind, 1, Min(Len(buf), Len(keybind))) = buf

\* the loop "for keybind in self.keybinds" from entry i on: the first entry that is
\* equal to the buffer or has it as a prefix decides
RECURSIVE ScanFrom(_, _, _)
ScanFrom(table, buf, i) ==
    IF i > Len(table) THEN [kind |-> "none", action |-> "none"]
    ELSE IF table[i].keys = buf THEN [kind |-> "exact", action |-> table[i].action]
    ELSE IF IsPrefixOf(buf, table[i].keys) THEN [kind |-> "partial", action |-> "none"]
    ELSE ScanFrom(table, buf, i + 1)

\* a scan that knows exact matches only
RECURSIVE ScanExactFrom(_, _, _)
ScanExactFrom(table, buf, i) ==
    IF i > Len(table) THEN [kind |-> "none", action |-> "none"]
    ELSE IF table[i].keys = buf THEN [kind |-> "exact", action |-> table[i].action]
    ELSE ScanExactFrom(table, buf, i + 1)

ScanKeybindsExactOnly(table, buf) == ScanExactFrom(table, buf, 1)

ScanKeybinds(table, buf) == ScanFrom(table, buf, 1)

\* "".join(self.key_buffer)
RECURSIVE Join(_)
Join(buf) == IF buf = <<>> THEN "" ELSE Head(buf) \o Join(Tail(buf))

\* the character urwid.Edit (multiline) inserts for a key, None when it has none
EditChar(key) == IF key = "enter" THEN "\n" ELSE IF Len(key) = 1 THEN key ELSE None

\* ChatHistory.keypress: the state after it and the key it returns (None when handled)
ChatHistoryKeypress(s, key) ==
    IF ~IsEmpty(s)
    THEN IF Focused(s).editing
         THEN IF key = "esc"
              THEN [s |-> WithFocused(s, BubbleLeaveInsertMode(Focused(s))), ret |-> None]
              ELSE IF EditChar(key) # None              \* urwid.Edit takes the character
                   THEN [s |-> [WithFocused(s, EditInsert(Focused(s), EditChar(key)))
                                   EXCEPT !.typed = TRUE],
                         ret |-> None]
                   ELSE [s |-> s, ret |-> key]
         ELSE LET a == CASE key = "j" -> SetFocus(s, s.focus + 1)
                         [] key = "k" -> SetFocus(s, s.focus - 1)
                         [] OTHER -> s
              IN [s |-> a, ret |-> key]                 \* ListBox.keypress hands the key back
    ELSE [s |-> s, ret |-> key]

\* ChatApp.edit_message_in_editor(msg_index), new_content being what the editor returns
EditMessageInEditor(s, msg_index, new_content) ==
    LET widget == s.message_list[msg_index + 1]
        a == [s EXCEPT !.message_list[msg_index + 1] =
                  BubbleUpdate([widget EXCEPT !.content = new_content])]
    IN SetFocus(a, msg_index)

\* EditableChatBubble.to_dict over the document: the {role, content} pairs
DocOf(ml) == [i \in 1..Len(ml) |-> [role |-> ml[i].role, content |-> GetContent(ml[i])]]

\* ChatApp.write_changes: open(chat_file, 'w') truncates the file, then json.dump of
\* ChatHistory.to_dict(), which is the list of the bound methods msg.to_dict (they
\* are not called): [] for an empty document, and otherwise json.dump raises
\* TypeError and leaves a file that is no JSON
WriteChanges(s) ==
    IF IsEmpty(s)
    THEN [s EXCEPT !.written = [kind |-> "messages", messages |-> <<>>]]
    ELSE Raise([s EXCEPT !.written = [kind |-> "not_json", messages |-> <<>>]], "TypeError")

\* ChatApp.shutdown
Shutdown(s) == WriteChanges(s)

\* ChatApp.get_response up to the first request for a fragment: the placeholder,
\* the focus, then "if self.complete is None: self.load_model()", which raises
\* AttributeError while no attribute complete exists (__init__ assigns
\* self.compelte), and the call of the completion function
GetResponseBegin(s) ==
    LET a == ListAppend(s, EditableChatBubble(<<>>, "assistant"))
        b == SetFocus(a, Len(a.message_list) - 1)
    IN IF b.complete = "unset" THEN Raise(b, "AttributeError")
       ELSE [b EXCEPT !.complete = "fn",
                      !.stream = "streaming", !.delivered = <<>>,
                      !.len_at_submit = Len(s.message_list), !.streams = s.streams + 1]

\* ChatApp.handle_input (unhandled_input of the main loop)
HandleInput(s, key, new_content) ==
    CASE key = "enter" ->
            IF s.busy THEN s
            ELSE LET r == GetResponseBegin([s EXCEPT !.busy = TRUE])
                 IN IF r.exc = "none" THEN r ELSE [r EXCEPT !.busy = FALSE]   \* finally
      [] key = "ctrl e" ->
            IF IsEmpty(s) THEN Raise(s, "IndexError")   \* focus_position of an empty ListBox
            ELSE EditMessageInEditor(s, s.focus, new_content)
      [] key = "q" -> Raise(s, "ExitMainLoop")
      [] OTHER -> s

\* WidgetWrap/Frame.keypress: the body gets the key, the main loop hands what comes
\* back to unhandled_input
FrameKeypress(s, key, new_content) ==
    LET r == ChatHistoryKeypress(s, key)
    IN IF r.ret = None THEN r.s ELSE HandleInput(r.s, key, new_content)

\* a keypress that leaves the buffer as it is after calling a binding
KeypressNoClear(s, key, new_content) ==
    IF s.insert_mode
    THEN LET a == IF key = "esc"
                  THEN SetInsertMode([s EXCEPT !.key_buffer = <<>>], FALSE)
                  ELSE s
         IN FrameKeypress([a EXCEPT !.fed = <<>>, !.outcome = "Forwarded", !.executed = "none"],
                          key, new_content)
    ELSE LET buf == Append(s.key_buffer, key)
             a == [s EXCEPT !.key_buffer = buf, !.footer_key_sequence = Join(buf), !.fed = buf]
             r == ScanKeybinds(keybinds, buf)
         IN CASE r.kind = "exact" ->
                   Call([a EXCEPT !.outcome = "Executed", !.executed = r.action], r.action)
              [] r.kind = "partial" ->
                   [a EXCEPT !.outcome = "Consumed", !.executed = "none"]
              [] OTHER ->
                   FrameKeypress([a EXCEPT !.key_buffer = <<>>, !.footer_key_sequence = Join(<<>>),
                                           !.outcome = "Unmatched", !.executed = "none"],
                                 key, new_content)

\* VimKeyHandler.keypress as the main loop runs it
Keypress(s, key, new_content) ==
    IF s.insert_mode
    THEN LET a == IF key = "esc"
                  THEN SetInsertMode([s EXCEPT !.key_buffer = <<>>], FALSE)
                  ELSE s
         IN FrameKeypress([a EXCEPT !.fed = <<>>, !.outcome = "Forwarded", !.executed = "none"],
                          key, new_content)
    ELSE LET buf == Append(s.key_buffer, key)
             a == [s EXCEPT !.key_buffer = buf, !.footer_key_sequence = Join(buf), !.fed = buf]
             r == ScanKeybinds(keybinds, buf)
         IN CASE r.kind = "exact" ->
                   LET b == Call([a EXCEPT !.outcome = "Executed", !.executed = r.action], r.action)
                   IN IF b.exc # "none" THEN b ELSE [b EXCEPT !.key_buffer = <<>>]
              [] r.kind = "partial" ->
                   [a EXCEPT !.outcome = "Consumed", !.executed = "none"]
              [] OTHER ->
                   FrameKeypress([a EXCEPT !.key_buffer = <<>>, !.footer_key_sequence = Join(<<>>),
                                           !.outcome = "Unmatched", !.executed = "none"],
                                 key, new_content)

-----------------------------------------------------------------------------
(* Construction *)

Msg(role, content) == [role |-> role, content |-> content]

\* the lists of messages a chat file holds
InitDocs ==
    { <<>>,
      << Msg("user", <<>>) >>,
      << Msg("user", <<"a">>), Msg("assistant", <<"b">>) >> }

\* the chat file: missing, text that is no JSON, JSON that is no list of message
\* objects (such as [1]), or the JSON list of the messages
File(kind, messages) == [kind |-> kind, messages |-> messages]

FileOf(messages) == File("messages", messages)

ChatFiles ==
    {File("missing", <<>>), File("not_json", <<>>), File("json_other", <<>>)}
        \cup {FileOf(messages) : messages \in InitDocs}

\* ChatApp.__init__, the load: FileNotFoundError and JSONDecodeError are caught and
\* leave messages = []; any other JSON value goes on to _build_message_widgets,
\* whose msg.get raises AttributeError on an item that is no object
LoadMessages(file) ==
    CASE file.kind = "messages" -> [messages |-> file.messages, exc |-> "none"]
      [] file.kind = "json_other" -> [messages |-> <<>>, exc |-> "AttributeError"]
      [] OTHER -> [messages |-> <<>>, exc |-> "none"]

\* a constructor that leaves the list of an empty load empty
ChatHistoryInitNoFirst(messages) ==
    LET ml == [i \in 1..Len(messages) |->
                   EditableChatBubble(messages[i].content, messages[i].role)]
    IN [message_list |-> ml, focus |-> Max(Len(ml) - 1, 0)]

\* ChatHistory.__init__(messages)
ChatHistoryInit(messages) ==
    LET ml == IF Len(messages) = 0
              THEN << BubbleEnterInsertMode(EditableChatBubble(<<>>, "user"), "start") >>
              ELSE [i \in 1..Len(messages) |->
                        EditableChatBubble(messages[i].content, messages[i].role)]
    IN [message_list |-> ml, focus |-> Len(ml) - 1]

\* ChatHistory.in_insert_mode(), called by VimKeyHandler.__init__ and defined nowhere
\* in the sources: Insert for an empty document or exactly one empty entry
ChatHistoryInInsertMode(h) ==
    Len(h.message_list) = 1 /\ GetContent(h.message_list[1]) = <<>>

\* ChatApp.__init__ followed by VimKeyHandler.__init__ with the binding table; an
\* exception of the load leaves no application behind
Construct(file, table) ==
    LET l == LoadMessages(file)
        h == IF l.exc = "none" THEN ChatHistoryInit(l.messages)
             ELSE [message_list |-> <<>>, focus |-> 0]
        mode == l.exc = "none" /\ ChatHistoryInInsertMode(h)
    IN /\ written = File("unwritten", <<>>)
       /\ pending = <<>>
       /\ message_list = h.message_list
       /\ focus = h.focus
       /\ insert_mode = mode
       /\ footer_mode = IF mode THEN "insert" ELSE "normal"
       /\ footer_key_sequence = ""
       /\ key_buffer = <<>>
       /\ keybinds = table
       /\ busy = FALSE
       /\ exc = l.exc
       /\ stream = "idle"
       /\ delivered = <<>>
       /\ len_at_submit = 0
       /\ streams = 0

\* the loader thread started by ChatApp.__init__ has stored the completion function
Loaded == complete = "fn" /\ loaders = 0

\* the loader thread started by ChatApp.__init__ has yet to store it
Loading == complete = "unset" /\ loaders = 1

Init == Loaded /\ \E file \in ChatFiles : Construct(file, Keybinds)

-----------------------------------------------------------------------------
(* Steps of the main loop *)

Store(n) ==
    /\ message_list' = n.message_list
    /\ focus' = n.focus
    /\ insert_mode' = n.insert_mode
    /\ footer_mode' = n.footer_mode
    /\ footer_key_sequence' = n.footer_key_sequence
    /\ key_buffer' = n.key_buffer
    /\ busy' = n.busy
    /\ exc' = n.exc
    /\ stream' = n.stream
    /\ delivered' = n.delivered
    /\ len_at_submit' = n.len_at_submit
    /\ streams' = n.streams
    /\ pending' = n.pending
    /\ written' = n.written
    /\ complete' = n.complete
    /\ loaders' = n.loaders
    /\ UNCHANGED keybinds

Running == exc = "none"

\* the model's bounds on a step's result
WithinBounds(n, key) ==
    /\ Len(n.message_list) <= MaxLen
    /\ n.streams <= MaxStreams
    /\ n.typed => /\ key \in TypedChars
                  /\ Len(Focused(n).edit_text) <= MaxText

\* the record of a finished stream is dropped when the next event is taken
Settled(s) == [s EXCEPT !.stream = "idle", !.delivered = <<>>, !.len_at_submit = 0]

\* ChatApp.input_filter on a key: an enter is filtered out while _busy is set
InputFilter(s, key) == ~(s.busy /\ key = "enter")

\* MainLoop on one key of its input: input_filter, then the widgets and unhandled_input
ProcessInput(s, key, new_content) ==
    IF InputFilter(s, key) THEN Keypress(s, key, new_content) ELSE s

\* the key the main loop reads next (the oldest key waiting in the terminal, else
\* the key the user types now) and what waits after it
NextInputs == IF pending = <<>> THEN Inputs ELSE {<<Head(pending), <<>>>>}

Taken(s) == [s EXCEPT !.pending = IF s.pending = <<>> THEN <<>> ELSE Tail(s.pending)]

\* one key read from the terminal and run through the filter, the widgets and
\* unhandled_input
KeypressStep ==
    \E in \in NextInputs :
        /\ Running /\ stream # "streaming"
        /\ \E n \in {ProcessInput(Taken(Settled(State)), in[1], in[2])} :
               WithinBounds(n, in[1]) /\ Store(n)

\* a key typed while get_response iterates the response: the main loop is inside
\* handle_input and reads nothing, so the key waits in the terminal
TypeAhead ==
    \E key \in PendingKeys :
        /\ Running /\ stream = "streaming"
        /\ Len(pending) < MaxPending
        /\ \E n \in {[State EXCEPT !.pending = Append(pending, key)]} : Store(n)

\* ChatApp.input_filter on a 'window resize'
WindowResize ==
    /\ Running /\ stream # "streaming"
    /\ \E n \in {Rebuild(Settled(State))} : Store(n)

\* an iteration that puts the chunk in front of the content
StreamChunkPrepend(s, chunk) ==
    LET i == Len(s.message_list)
        response_message == s.message_list[i]
    IN [s EXCEPT !.message_list[i] =
               BubbleUpdate([response_message EXCEPT !.content = chunk \o response_message.content]),
                 !.delivered = Append(s.delivered, chunk)]

\* an iteration that adds the chunk to the first entry of the document
StreamChunkToFirst(s, chunk) ==
    LET response_message == s.message_list[1]
    IN [s EXCEPT !.message_list[1] =
               BubbleUpdate([response_message EXCEPT !.content = response_message.content \o chunk]),
                 !.delivered = Append(s.delivered, chunk)]

\* one iteration of "for chunk in response" in get_response
StreamChunkOf(s, chunk) ==
    LET i == Len(s.message_list)
        response_message == s.message_list[i]
    IN [s EXCEPT !.message_list[i] =
               BubbleUpdate([response_message EXCEPT !.content = response_message.content \o chunk]),
                 !.delivered = Append(s.delivered, chunk)]

StreamChunk ==
    \E chunk \in Fragments :
        /\ Running /\ stream = "streaming"
        /\ Len(delivered) < MaxFrags
        /\ \E n \in {StreamChunkOf(State, chunk)} : Store(n)
    
\* the response is exhausted: get_response returns and handle_input's finally runs
StreamEndOf(s) == [s EXCEPT !.stream = "done", !.busy = FALSE]

StreamEnd ==
    /\ Running /\ stream = "streaming"
    /\ \E n \in {StreamEndOf(State)} : Store(n)

\* the completion source raises: the finally runs and the exception leaves handle_input
StreamFailOf(s) == Raise([s EXCEPT !.stream = "done", !.busy = FALSE], "CompletionError")

StreamFail ==
    /\ Running /\ stream = "streaming"
    /\ \E n \in {StreamFailOf(State)} : Store(n)

\* an interrupt (SIGINT) while get_response iterates the response: KeyboardInterrupt
\* runs handle_input's finally and leaves loop.run and run, which catch nothing
InterruptOf(s) == Raise([s EXCEPT !.stream = "done", !.busy = FALSE], "KeyboardInterrupt")

Interrupt ==
    /\ Running /\ stream = "streaming"
    /\ \E n \in {InterruptOf(State)} : Store(n)

Next ==
    KeypressStep \/ WindowResize \/ TypeAhead \/ StreamChunk \/ StreamEnd \/ StreamFail
        \/ Interrupt

Spec == Init /\ [][Next]_vars

-----------------------------------------------------------------------------
(* The dispatcher of VimKeyHandler constructed on other binding tables: the  *)
(* same program with self.keybinds holding a table in which one sequence is  *)
(* a proper prefix of another, in either insertion order.                    *)

TableShortFirst ==
    << Bind(<<"d">>, "go_to_last_message"),
       Bind(<<"d", "d">>, "delete_focused_message"),
       Bind(<<"i">>, "enter_insert_mode") >>

TableLongFirst ==
    << Bind(<<"d", "d">>, "delete_focused_message"),
       Bind(<<"d">>, "go_to_last_message"),
       Bind(<<"i">>, "enter_insert_mode") >>

Tables == {TableShortFirst, TableLongFirst}

InitTable == Loaded /\ \E file \in ChatFiles, table \in Tables : Construct(file, table)

SpecTable == InitTable /\ [][Next]_vars

-----------------------------------------------------------------------------
(* The program with its model loader: the thread that ChatApp.__init__ and    *)
(* select_model start runs load_model beside the main loop.                   *)

\* ChatApp.load_model in a loader thread: the store of self.complete
LoadModelOf(s) == [s EXCEPT !.complete = "fn", !.loaders = s.loaders - 1]

LoadModelThread ==
    /\ Running /\ loaders > 0
    /\ \E n \in {LoadModelOf(State)} : Store(n)

\* ctrl p, which reaches handle_input and opens the popup, and enter on a model
\* in the popup: ChatApp.select_model resets complete and starts a loader thread
SelectModelOf(s) ==
    [Keypress(s, "ctrl p", <<>>) EXCEPT !.complete = "None", !.loaders = s.loaders + 1]

SelectModel ==
    /\ Running /\ stream # "streaming" /\ pending = <<>>
    /\ loaders < MaxLoaders
    /\ \E n \in {SelectModelOf(Settled(State))} : Store(n)

InitLoader == Loading /\ \E file \in ChatFiles : Construct(file, Keybinds)

NextLoader == Next \/ LoadModelThread \/ SelectModel

SpecLoader == InitLoader /\ [][NextLoader]_vars

-----------------------------------------------------------------------------
(* Properties *)

Cur == Settled(State)

Ready == Running /\ stream # "streaming"

NormalReady == Ready /\ ~insert_mode

Concat(frags) == LET RECURSIVE C(_)
                     C(fs) == IF fs = <<>> THEN <<>> ELSE Head(fs) \o C(Tail(fs))
                 IN C(frags)

\* C1: the focus is an index of the document, and None exactly when the document
\* is empty
C1_FocusInRange ==
    IF Len(message_list) = 0
    THEN FocusOf(State) = None
    ELSE FocusOf(State) \in 0..(Len(message_list) - 1)

\* the document was emptied by dd: the focus is None
C1_Witness ==
    /\ Len(message_list) = 0 /\ footer_key_sequence = "dd" /\ key_buffer = <<>>
    /\ FocusOf(State) = None

\* the single chords bound to an action that takes the focused index, and ctrl e
IndexKeys == {"j", "k", "G", "ctrl up", "ctrl down", "l", "h", "c", "ctrl e"}

\* C2: on an empty document every index-taking action raises nothing and changes
\* nothing (insert above/below raise nothing); with a target out of range the
\* action changes neither the document nor the focus and raises nothing
C2_TotalOperations ==
    NormalReady /\ key_buffer = <<>> =>
        /\ IsEmpty(Cur) =>
              /\ \A key \in IndexKeys :
                    LET n == Keypress(Cur, key, <<"b">>)
                    IN n.exc = "none" /\ n.message_list = message_list /\ n.focus = focus
              /\ \A key \in {"o", "O"} : Keypress(Cur, key, <<>>).exc = "none"
              /\ \A key \in {"d", "g"} :
                    LET n == Keypress(Keypress(Cur, key, <<>>), key, <<>>)
                    IN n.exc = "none" /\ n.message_list = message_list /\ n.focus = focus
        /\ ~IsEmpty(Cur) =>
              /\ focus = 0 =>
                    \A key \in {"k", "ctrl up"} :
                        LET n == Keypress(Cur, key, <<>>)
                        IN n.exc = "none" /\ n.message_list = message_list /\ n.focus = focus
              /\ focus = Len(message_list) - 1 =>
                    LET n == Keypress(Cur, "ctrl down", <<>>)
                    IN n.exc = "none" /\ n.message_list = message_list /\ n.focus = focus

\* C3: dd on a document of one entry leaves exactly one empty entry, focused, in
\* Insert mode
C3_DeleteLastEntersInsert ==
    NormalReady /\ key_buffer = <<"d">> /\ Len(message_list) = 1 =>
        LET n == Keypress(Cur, "d", <<>>)
        IN /\ Len(n.message_list) = 1
           /\ GetContent(n.message_list[1]) = <<>>
           /\ FocusOf(n) = 0
           /\ n.insert_mode

\* C4: from an empty pending buffer in Normal mode, the first d is consumed and
\* calls nothing, the second d calls delete_focused_message once (one entry fewer)
\* and leaves the buffer empty
C4_DdDeletesOnce ==
    NormalReady /\ key_buffer = <<>> =>
        LET n1 == Keypress(Cur, "d", <<>>)
            n2 == Keypress(n1, "d", <<>>)
        IN /\ n1.outcome = "Consumed" /\ n1.executed = "none"
           /\ n1.key_buffer = <<"d">>
           /\ n1.message_list = message_list /\ n1.focus = focus
           /\ n1.insert_mode = insert_mode /\ n1.exc = "none"
           /\ n2.outcome = "Executed" /\ n2.executed = "delete_focused_message"
           /\ n2.key_buffer = <<>>
           /\ Len(n2.message_list) = Max(Len(message_list) - 1, 0)
           /\ n2.exc = "none"

\* dd has just deleted one of two entries
C4_Witness ==
    /\ NormalReady /\ footer_key_sequence = "dd" /\ key_buffer = <<>>
    /\ Len(message_list) = 1

\* C5: with d pending in Normal mode, a chord x for which (d, x) is not bound makes
\* the dispatcher call no binding and empty the buffer, so the chord after it is
\* scanned alone
C5_UnmatchedClears ==
    NormalReady /\ key_buffer = <<"d">> =>
        \A x \in Keys :
            (\A i \in 1..Len(keybinds) : keybinds[i].keys # <<"d", x>>) =>
                LET n == Keypress(Cur, x, <<"b">>)
                IN /\ n.fed = <<"d", x>>
                   /\ n.outcome = "Unmatched" /\ n.executed = "none"
                   /\ n.key_buffer = <<>>
                   /\ (n.exc = "none" /\ ~n.insert_mode /\ n.stream # "streaming") =>
                         \A y \in Keys : Keypress(n, y, <<"b">>).fed = <<y>>

\* d is pending and the document has two entries
C5_Witness ==
    NormalReady /\ key_buffer = <<"d">> /\ footer_key_sequence = "d" /\ Len(message_list) = 2

ExactlyBound(table, buf) == \E i \in 1..Len(table) : table[i].keys = buf

StrictPrefixBound(table, buf) ==
    \E i \in 1..Len(table) :
        Len(table[i].keys) > Len(buf) /\ SubSeq(table[i].keys, 1, Len(buf)) = buf

Orders(table) ==
    LET n == Len(table)
        Bij == {p \in [1..n -> 1..n] : \A i, j \in 1..n : p[i] = p[j] => i = j}
    IN {[i \in 1..n |-> table[p[i]]] : p \in Bij}

PrefixConflict(table) ==
    \E i, j \in 1..Len(table) :
        Len(table[i].keys) < Len(table[j].keys)
        /\ SubSeq(table[j].keys, 1, Len(table[i].keys)) = table[i].keys

C8_Involution ==
    NormalReady /\ key_buffer = <<>> /\ ~IsEmpty(Cur) =>
        \A key \in {"h", "l"} :
            LET n == Keypress(Keypress(Cur, key, <<>>), key, <<>>)
            IN /\ Focused(n).role = Focused(Cur).role
               /\ GetContent(Focused(n)) = GetContent(Focused(Cur))

\* C8 amended: h sets the focused entry's role to assistant and l to user; pressed
\* twice the key leaves what it left when pressed once, and neither changes the
\* content, the other entries or the focus
C8_SetRoleIdempotent ==
    NormalReady /\ key_buffer = <<>> /\ ~IsEmpty(Cur) =>
        \A key \in {"h", "l"} :
            LET role == IF key = "h" THEN "assistant" ELSE "user"
                n1 == Keypress(Cur, key, <<>>)
                n2 == Keypress(n1, key, <<>>)
            IN /\ Focused(n1).role = role
               /\ n1.message_list = [message_list EXCEPT ![focus + 1].role = role]
               /\ n1.focus = focus
               /\ n2.message_list = n1.message_list /\ n2.focus = n1.focus
               /\ n1.exc = "none" /\ n2.exc = "none"

\* h has turned the user entry "a" into an assistant entry
C8_Witness ==
    /\ NormalReady /\ footer_key_sequence = "h" /\ key_buffer = <<>>
    /\ ~IsEmpty(Cur) /\ Focused(Cur).role = "assistant" /\ Focused(Cur).content = <<"a">>

\* C9: swap-up at index 0 and swap-down at the last index change neither the
\* document nor the focus and raise nothing
C9_SwapOutOfRangeNoOp ==
    NormalReady /\ key_buffer = <<>> /\ ~IsEmpty(Cur) =>
        /\ focus = 0 =>
              LET n == Keypress(Cur, "ctrl up", <<>>)
              IN n.message_list = message_list /\ n.focus = focus /\ n.exc = "none"
        /\ focus = Len(message_list) - 1 =>
              LET n == Keypress(Cur, "ctrl down", <<>>)
              IN n.message_list = message_list /\ n.focus = focus /\ n.exc = "none"

\* swap-up has just run with two different entries and the focus is at index 0
C9_Witness ==
    /\ NormalReady /\ footer_key_sequence = "ctrl up" /\ key_buffer = <<>>
    /\ Len(message_list) = 2 /\ focus = 0 /\ message_list[1] # message_list[2]
    /\ Keypress(Cur, "ctrl up", <<>>).message_list = message_list

\* C10: during and at the end of a stream the placeholder, the last entry, is an
\* assistant entry holding the fragments delivered so far in arrival order, and
\* the document is one entry longer than when the submit was accepted
C10_StreamConcatenates ==
    stream \in {"streaming", "done"} =>
        /\ Len(message_list) = len_at_submit + 1
        /\ message_list[Len(message_list)].role = "assistant"
        /\ message_list[Len(message_list)].content = Concat(delivered)

\* a stream of two different fragments has ended
C10_Witness ==
    /\ stream = "done" /\ exc = "none" /\ ~busy
    /\ delivered = << <<"a">>, <<"b">> >>
    /\ message_list[Len(message_list)].content = <<"a", "b">>

\* C11: an enter typed in Normal mode while the busy flag is set (the oldest key
\* waiting when the stream has ended) appends no entry, starts no stream, is not
\* replayed as a submit and raises nothing
C11_BusySubmitNoOp ==
    (NormalReady /\ pending # <<>> /\ Head(pending) = "enter") =>
        LET n == ProcessInput(Taken(Cur), "enter", <<>>)
        IN /\ n.message_list = message_list
           /\ n.stream # "streaming" /\ n.streams = streams
           /\ ~n.busy /\ n.exc = "none"

C13_StreamEndSaves ==
    [][((StreamEnd \/ StreamFail) /\ ~insert_mode) =>
           /\ ~busy'
           /\ written' = FileOf(DocOf(message_list'))]_vars

\* C14: when the source fails mid-stream (of a submit in Normal mode) the
\* placeholder keeps exactly the fragments delivered, the busy flag is cleared and
\* the program keeps running
C14_FailureRecovers ==
    [][(StreamFail /\ ~insert_mode) =>
           /\ message_list' = message_list
           /\ message_list'[Len(message_list')].content = Concat(delivered)
           /\ ~busy'
           /\ exc' = "none"]_vars

\* C15: the load of a chat file that is missing or holds no list of messages
\* raises nothing and gives the empty list of messages
C15_LoadNeverFatal ==
    \A file \in ChatFiles :
        (file.kind # "messages" /\ Construct(file, keybinds)) =>
            /\ exc = "none"
            /\ LoadMessages(file).messages = <<>>
            /\ message_list = ChatHistoryInit(<<>>).message_list

\* C16: write_changes on the current document raises nothing, and loading what
\* it wrote gives the {role, content} pairs of the document
C16_RoundTrip ==
    Ready =>
        LET n == WriteChanges(Cur)
        IN /\ n.exc = "none"
           /\ n.written.kind = "messages"
           /\ LoadMessages(n.written) = [messages |-> DocOf(message_list), exc |-> "none"]

\* C17: when the main loop is left by q typed during a stream or by an interrupt
\* during a stream (submitted in Normal mode), the document as accumulated has
\* been written to the chat file
C17_FlushBeforeTeardown ==
    [][(exc = "none" /\ exc' \in {"ExitMainLoop", "KeyboardInterrupt"} /\ ~insert_mode
            /\ (stream = "streaming" \/ pending # <<>>)) =>
           written' = FileOf(DocOf(message_list'))]_vars

\* C18: esc in Insert mode leaves Normal mode and no entry under edit, and the
\* entry that was under edit has the edit box's text as content and its cursor
\* as offset; the pending buffer is empty afterwards
C18_EscCommits ==
    (Ready /\ insert_mode) =>
        LET n == ProcessInput(Cur, "esc", <<>>)
        IN /\ ~n.insert_mode /\ n.footer_mode = "normal"
           /\ n.key_buffer = <<>> /\ n.exc = "none"
           /\ Len(n.message_list) = Len(message_list)
           /\ \A i \in 1..Len(message_list) :
                 /\ ~n.message_list[i].editing
                 /\ n.message_list[i].role = message_list[i].role
                 /\ IF message_list[i].editing
                    THEN /\ n.message_list[i].content = message_list[i].edit_text
                         /\ n.message_list[i].last_edit_position = message_list[i].edit_pos
                    ELSE n.message_list[i] = message_list[i]

\* esc has committed a session into which "a" was typed: Normal mode, no entry
\* under edit, the text and the cursor offset 1 in the entry
C18_Witness ==
    /\ NormalReady /\ ~IsEmpty(Cur)
    /\ \A i \in 1..Len(message_list) : ~message_list[i].editing
    /\ Focused(Cur).content = <<"a">> /\ Focused(Cur).last_edit_position = 1

\* C19: whatever happens while a session (opened with i) is open, here a window
\* resize, the text of the edit box is the entry's content once esc has ended
\* the session
C19_TypedTextKept ==
    (Ready /\ insert_mode /\ footer_key_sequence = "i"
        /\ ~IsEmpty(Cur) /\ Focused(Cur).editing) =>
        LET n == ProcessInput(Rebuild(Cur), "esc", <<>>)
        IN Focused(n).content = Focused(Cur).edit_text

\* C20: at most one entry of the document is under edit
C20_OneEditSession ==
    Cardinality({i \in 1..Len(message_list) : message_list[i].editing}) <= 1

\* o has put a new entry under edit above an entry that is not
C20_Witness ==
    /\ Len(message_list) = 2 /\ insert_mode
    /\ message_list[1].editing /\ ~message_list[2].editing
    /\ message_list[2].content # <<>>

C22_FocusNext ==
    (NormalReady /\ key_buffer = <<>> /\ ~IsEmpty(Cur)) =>
        LET n == Keypress(Cur, "j", <<>>)
            len == Len(message_list)
        IN /\ n.executed = "focus_next_message" /\ n.exc = "none"
           /\ IF focus = len - 1 /\ GetContent(message_list[len]) # <<>>
              THEN /\ n.message_list = Append(message_list, EditableChatBubble(<<>>, "user"))
                   /\ n.focus = len
              ELSE /\ n.message_list = message_list
                   /\ n.focus = Min(focus + 1, len - 1)

\* j has grown the document by an empty user entry and focused it
C22_Witness ==
    /\ NormalReady /\ footer_key_sequence = "j" /\ key_buffer = <<>>
    /\ Len(message_list) = 2 /\ focus = 1
    /\ message_list[1].content # <<>>
    /\ message_list[2] = EditableChatBubble(<<>>, "user")

\* C23: when j moves the focus onto the empty entry it has just appended, the
\* controller is in Insert mode afterwards
C23_AutoInsertOnFreshEntry ==
    (NormalReady /\ key_buffer = <<>> /\ ~IsEmpty(Cur)
        /\ focus = Len(message_list) - 1
        /\ GetContent(message_list[Len(message_list)]) # <<>>) =>
        LET n == Keypress(Cur, "j", <<>>)
        IN /\ Len(n.message_list) = Len(message_list) + 1
           /\ n.insert_mode

\* C24: o (add_message_above) inserts one empty user entry at the focused index
\* and O (add_message_below) one after it: the entries before keep their places,
\* the later ones move up by one in the same order, the focus is on the new
\* entry, the controller is in Insert mode and the new entry is the one under edit
C24_InsertEntry ==
    (NormalReady /\ key_buffer = <<>> /\ ~IsEmpty(Cur)) =>
        \A key \in {"o", "O"} :
            LET n == Keypress(Cur, key, <<>>)
                at == IF key = "o" THEN focus ELSE focus + 1
                new == n.message_list[at + 1]
            IN /\ n.executed = (IF key = "o" THEN "add_message_above" ELSE "add_message_below")
               /\ n.exc = "none"
               /\ Len(n.message_list) = Len(message_list) + 1
               /\ RemoveAt(n.message_list, at + 1) = message_list
               /\ new.role = "user" /\ new.content = <<>>
               /\ new.editing /\ new.edit_text = <<>> /\ new.edit_pos = 0
               /\ n.focus = at
               /\ n.insert_mode
               /\ \A i \in 1..Len(n.message_list) : n.message_list[i].editing => i = at + 1

\* O has inserted an entry under edit below the entry "a"
C24_Witness ==
    /\ insert_mode /\ footer_key_sequence = "O" /\ key_buffer = <<>>
    /\ Len(message_list) = 2 /\ focus = 1
    /\ message_list[1].content = <<"a">> /\ ~message_list[1].editing
    /\ message_list[2].editing /\ message_list[2].content = <<>>

\* the current state when it is in Normal mode with an empty buffer, and the
\* states of one entry more that O, esc and then up to two k lead to from it
NormalStates ==
    IF NormalReady /\ key_buffer = <<>>
    THEN LET g == Keypress(Keypress(Cur, "O", <<>>), "esc", <<>>)
             g1 == Keypress(g, "k", <<>>)
             g2 == Keypress(g1, "k", <<>>)
         IN {Cur, g, g1, g2}
    ELSE {}

\* C25: dd on a document of more than one entry removes exactly the focused
\* entry, keeps the others in their order, and leaves the focus at
\* min(old index, len - 1) of the document that results
C25_DeleteFocused ==
    \A s \in NormalStates :
        Len(s.message_list) > 1 =>
            LET n == Keypress(Keypress(s, "d", <<>>), "d", <<>>)
            IN /\ n.executed = "delete_focused_message" /\ n.exc = "none"
               /\ n.message_list = RemoveAt(s.message_list, s.focus + 1)
               /\ n.focus = Min(s.focus, Len(n.message_list) - 1)

\* dd has deleted the first of the entries "a", "b": "b" is left and focused
C25_Witness ==
    /\ NormalReady /\ footer_key_sequence = "dd" /\ key_buffer = <<>>
    /\ Len(message_list) = 1 /\ focus = 0
    /\ message_list[1].content = <<"b">> /\ message_list[1].role = "assistant"

\* C26: ctrl up / ctrl down with the target index in range exchange the focused
\* entry and the entry at the target, leave every other position and the length
\* as they were, and move the focus to the target
C26_SwapInRange ==
    \A s \in NormalStates :
        \A delta \in {-1, 1} :
            LET target == s.focus + delta
                n == Keypress(s, IF delta = -1 THEN "ctrl up" ELSE "ctrl down", <<>>)
            IN (~IsEmpty(s) /\ target >= 0 /\ target < Len(s.message_list)) =>
                   /\ n.exc = "none"
                   /\ Len(n.message_list) = Len(s.message_list)
                   /\ n.message_list[target + 1] = s.message_list[s.focus + 1]
                   /\ n.message_list[s.focus + 1] = s.message_list[target + 1]
                   /\ \A i \in 1..Len(s.message_list) :
                         (i # s.focus + 1 /\ i # target + 1) =>
                             n.message_list[i] = s.message_list[i]
                   /\ n.focus = target

\* ctrl down has moved the user entry "a" below the assistant entry "b"
C26_Witness ==
    /\ NormalReady /\ footer_key_sequence = "ctrl down" /\ key_buffer = <<>>
    /\ Len(message_list) = 2 /\ focus = 1
    /\ message_list[1].role = "assistant" /\ message_list[1].content = <<"b">>
    /\ message_list[2].role = "user" /\ message_list[2].content = <<"a">>

\* C27: c empties the focused entry's content and puts it under edit with an
\* empty edit box and the cursor at 0, whatever offset was committed before;
\* the other entries, the role and the focus are unchanged
C27_ClearFocused ==
    \A s \in NormalStates :
        ~IsEmpty(s) =>
            LET n == Keypress(s, "c", <<>>)
            IN /\ n.executed = "clear_focused_message" /\ n.exc = "none"
               /\ Focused(n).content = <<>>
               /\ Focused(n).editing
               /\ Focused(n).edit_text = <<>> /\ Focused(n).edit_pos = 0
               /\ Focused(n).role = Focused(s).role
               /\ n.focus = s.focus
               /\ Len(n.message_list) = Len(s.message_list)
               /\ \A i \in 1..Len(s.message_list) :
                     i # s.focus + 1 => n.message_list[i] = s.message_list[i]
               /\ n.insert_mode

\* c has cleared an entry whose committed cursor offset was 1
C27_Witness ==
    /\ insert_mode /\ footer_key_sequence = "c" /\ key_buffer = <<>>
    /\ ~IsEmpty(Cur) /\ Focused(Cur).editing
    /\ Focused(Cur).content = <<>> /\ Focused(Cur).edit_text = <<>>
    /\ Focused(Cur).edit_pos = 0 /\ Focused(Cur).last_edit_position = 1

\* C28: whenever the main loop waits for input the footer's mode indicator is
\* the controller's mode
C28_FooterShowsMode ==
    Ready => footer_mode = (IF insert_mode THEN "insert" ELSE "normal")

\* C29: whenever the main loop waits for input in Normal mode the footer's key
\* sequence is the pending buffer, joined
C29_FooterShowsBuffer ==
    NormalReady => footer_key_sequence = Join(key_buffer)

\* C30: the pending buffer is empty whenever the controller is in Insert mode,
\* and after every step that changes the mode
C30_BufferResetOnModeChange ==
    [][/\ insert_mode => key_buffer = <<>>
       /\ insert_mode' => key_buffer' = <<>>
       /\ insert_mode' # insert_mode => key_buffer' = <<>>]_vars

\* i has opened a session on the focused entry: Insert mode with an empty buffer
C30_Witness ==
    /\ Ready /\ insert_mode /\ key_buffer = <<>> /\ footer_key_sequence = "i"
    /\ ~IsEmpty(Cur) /\ Focused(Cur).editing

\* the entries without what an edit box holds: roles, committed content and
\* which entry is under edit
Entries(ml) ==
    [i \in 1..Len(ml) |-> [role |-> ml[i].role, content |-> ml[i].content,
                           editing |-> ml[i].editing]]

\* C31: in Insert mode (here with the session that i has opened) a chord other
\* than esc calls no binding and changes at most the edit box of the entry under
\* edit: the entries, their roles and order, the focus, the mode and the pending
\* buffer are as before and the program keeps running
C31_InsertRoutesToEdit ==
    (Ready /\ insert_mode /\ footer_key_sequence = "i"
        /\ ~IsEmpty(Cur) /\ Focused(Cur).editing) =>
        \A in \in Inputs :
            in[1] # "esc" =>
                LET n == ProcessInput(Cur, in[1], in[2])
                IN /\ n.outcome = "Forwarded" /\ n.executed = "none"
                   /\ Entries(n.message_list) = Entries(message_list)
                   /\ n.focus = focus
                   /\ n.insert_mode /\ n.key_buffer = key_buffer
                   /\ n.stream = "idle" /\ n.exc = "none"

\* C32: a key typed while a stream is in flight is processed before the stream
\* ends: no stream ends with a typed key still waiting
C32_KeysProcessedDuringStream ==
    (stream = "done" /\ ~insert_mode) => pending = <<>>

\* C33: the controller is in Insert mode exactly when the focused entry is
\* under edit, and in Normal mode no entry is under edit
C33_ModeAgreesWithEdit ==
    Running =>
        /\ insert_mode <=> (~IsEmpty(Cur) /\ Focused(Cur).editing)
        /\ ~insert_mode => \A i \in 1..Len(message_list) : ~message_list[i].editing

\* C34: in Normal mode with d or g pending, a j or k that completes no binding
\* changes neither the entries nor the focus
C34_UnmatchedNotACommand ==
    (NormalReady /\ key_buffer \in {<<"d">>, <<"g">>}) =>
        \A key \in {"j", "k"} :
            LET n == Keypress(Cur, key, <<>>)
            IN n.outcome = "Unmatched" =>
                   /\ n.message_list = message_list
                   /\ n.focus = focus

\* C35: a submit made while the loader thread has not stored the completion
\* function finds complete to be None, loads it and then starts the stream:
\* nothing is raised and the function called is set
C35_SubmitLoadsCompletion ==
    (NormalReady /\ key_buffer = <<>> /\ pending = <<>> /\ complete # "fn") =>
        LET n == ProcessInput(Cur, "enter", <<>>)
        IN /\ n.exc = "none"
           /\ n.complete = "fn"
           /\ n.stream = "streaming"

====
